---- MODULE Spec2Model ----
\* Keyword ingestion (parse / stage / upload) and keyword lifecycle
\* (select / generate / retry / delete / re-fetch) of the Keywords page,
\* frontend/src/pages/Keywords/KeywordsPage.tsx, against the REST collaborator
\* it calls through frontend/src/services/api.ts.
EXTENDS Integers, Sequences, FiniteSets, TLC

\* ---------------------------------------------------------------- bounds
\* longest raw text typed into the manual-input field (characters)
MaxLen == 5
\* most data rows of a dropped CSV file
MaxRows == 2
\* keyword ids the store can hold
MaxId == 2
\* longest list a single fetch response carries in SpecSort
MaxList == 3
\* latest creation time stamp of a fetched record in SpecSort
MaxTime == 2
\* longest text of the manual field in SpecUpload
MaxUploadLen == 3
\* handler invocations (calls to the store) that may be in flight together
MaxInFlight == 2
\* user-initiated store operations in one behaviour
MaxUserOps == 2

VARIABLES
  \* upload tab (KeywordsPage.tsx:98-106)
  uploadedKeywords, uploadStatus, manualKeywords, inputMethod, papa, uploads,
  campaignName,
  \* keywords tab (KeywordsPage.tsx:109-124)
  keywords, selectedKeywords, loadingKeywords, stores, selectedStore,
  generateDialogOpen, generating, keywordLoading, showErrorDialog, alert,
  \* the external store behind the REST API
  db,
  \* handler invocations in flight
  loads, storesLoad, retry, genTask, del, bulk, userOps

stagingVars == <<uploadedKeywords, uploadStatus, manualKeywords, inputMethod, papa,
                 uploads, campaignName>>
pageVars == <<keywords, selectedKeywords, loadingKeywords, stores, selectedStore,
              generateDialogOpen, generating, keywordLoading, showErrorDialog, alert>>
taskVars == <<loads, storesLoad, retry, genTask, del, bulk, userOps>>
vars == <<stagingVars, pageVars, db, taskVars>>

\* ---------------------------------------------------------------- text
\* A string is a sequence of one-character tokens; LF is the line feed.
LF == "LF"
Digits == {"0", "5"}
Alphabet == {"c", "C", ",", LF, " "} \cup Digits

IsSpace(ch) == ch \in {" ", LF}

RECURSIVE TrimLeft(_)
TrimLeft(s) ==
  IF s # <<>> /\ IsSpace(Head(s)) THEN TrimLeft(Tail(s)) ELSE s

RECURSIVE TrimRight(_)
TrimRight(s) ==
  IF s # <<>> /\ IsSpace(s[Len(s)]) THEN TrimRight(SubSeq(s, 1, Len(s) - 1)) ELSE s

\* String.prototype.trim
trim(s) == TrimRight(TrimLeft(s))

\* String.prototype.split(sep): the pieces between the separators, empty
\* pieces kept
RECURSIVE SplitAcc(_, _, _)
SplitAcc(s, sep, cur) ==
  IF s = <<>> THEN <<cur>>
  ELSE IF Head(s) = sep THEN <<cur>> \o SplitAcc(Tail(s), sep, <<>>)
  ELSE SplitAcc(Tail(s), sep, Append(cur, Head(s)))
split(s, sep) == SplitAcc(s, sep, <<>>)

DigitValue(ch) == IF ch = "5" THEN 5 ELSE 0

\* value of the longest prefix of decimal digits; {} when there is none (NaN)
RECURSIVE LeadingNumber(_, _, _)
LeadingNumber(s, acc, seen) ==
  IF s # <<>> /\ Head(s) \in Digits
    THEN LeadingNumber(Tail(s), acc * 10 + DigitValue(Head(s)), TRUE)
    ELSE IF seen THEN {acc} ELSE {}

\* parseInt / parseFloat: leading white space skipped, then the digits read;
\* a number is {n}, NaN is {}. The alphabet has no sign, point or exponent, so
\* the two agree on it.
parseInt(s) == LeadingNumber(TrimLeft(s), 0, FALSE)
parseFloat(s) == LeadingNumber(TrimLeft(s), 0, FALSE)

\* `x || undefined` on a number: NaN and 0 are falsy; undefined is {}
OrUndefined(v) == IF v = {} \/ v = {0} THEN {} ELSE v

\* the literal 'General' (KeywordsPage.tsx:244, 329)
General == <<"General">>

\* ---------------------------------------------------------------- parser
\* one line of the manual input to a record (KeywordsPage.tsx:322-331)
ParseLine(line) ==
  LET pieces == split(line, ",")
      parts == [i \in 1..Len(pieces) |-> trim(pieces[i])]
      part(i) == IF i <= Len(parts) THEN parts[i] ELSE <<>>
  IN [keyword |-> part(1),
      search_volume |-> IF part(2) # <<>> THEN OrUndefined(parseInt(part(2))) ELSE {},
      category |-> IF part(3) # <<>> THEN part(3) ELSE General,
      keyword_difficulty |-> IF part(4) # <<>> THEN OrUndefined(parseFloat(part(4))) ELSE {}]

NonEmpty(s) == Len(s) > 0
HasKeyword(kw) == Len(kw.keyword) > 0

\* the records handleManualKeywords stages for a raw text
\* (KeywordsPage.tsx:317-332)
ParseManual(raw) ==
  LET lines == split(raw, LF)
      keywordLines == SelectSeq([i \in 1..Len(lines) |-> trim(lines[i])], NonEmpty)
  IN SelectSeq([i \in 1..Len(keywordLines) |-> ParseLine(keywordLines[i])], HasKeyword)

\* CSV columns the page reads (KeywordsPage.tsx:240-245), and one it does not
Columns == {"keyword", "keywords", "search_term", "search_volume", "volume",
            "category", "topic", "keyword_difficulty", "difficulty", "kd", "notes"}

\* Papa.parse(file, {header: true}): each data row becomes an object keyed by
\* the header's names; a name the header lacks reads as undefined, here the
\* empty string (both are falsy wherever the page reads them)
RowObject(header, cells) ==
  [col \in Columns |->
     IF \E i \in 1..Len(header) : header[i] = col /\ i <= Len(cells)
       THEN cells[CHOOSE i \in 1..Len(header) : header[i] = col /\ i <= Len(cells)]
       ELSE <<>>]
PapaParse(file) == [i \in 1..Len(file.rows) |-> RowObject(file.header, file.rows[i])]

\* a || b || c on strings: the first non-empty one, else the last
Or3(a, b, c) == IF a # <<>> THEN a ELSE IF b # <<>> THEN b ELSE c

RowHasKeyword(row) == Or3(row.keyword, row.keywords, row.search_term) # <<>>

\* one parsed CSV row to a record (KeywordsPage.tsx:241-246)
ParseRow(row) ==
  [keyword |-> Or3(row.keyword, row.keywords, row.search_term),
   search_volume |->
     OrUndefined(parseInt(Or3(row.search_volume, row.volume, <<"0">>))),
   category |-> Or3(row.category, row.topic, General),
   keyword_difficulty |->
     OrUndefined(parseFloat(Or3(Or3(row.keyword_difficulty, row.difficulty, row.kd),
                                <<"0">>, <<"0">>)))]

\* the records the complete callback of onDrop stages (KeywordsPage.tsx:238-246)
ParseCsv(file) ==
  LET rows == SelectSeq(PapaParse(file), RowHasKeyword)
  IN [i \in 1..Len(rows) |-> ParseRow(rows[i])]

\* ---------------------------------------------------------------- inputs
RECURSIVE SeqsUpTo(_, _)
SeqsUpTo(S, n) ==
  IF n = 0 THEN {<<>>}
  ELSE LET shorter == SeqsUpTo(S, n - 1)
       IN shorter \cup {Append(s, x) : s \in {t \in shorter : Len(t) = n - 1}, x \in S}

RawTexts == SeqsUpTo(Alphabet, MaxLen)
Cells == {<<>>, <<"c">>, <<"C">>, <<" ">>, <<"5">>, <<"0">>}
Headers == {<<a, b>> : a \in Columns, b \in Columns} \ {<<a, a>> : a \in Columns}
CsvFiles == [header : Headers, rows : SeqsUpTo(Cells \X Cells, MaxRows)]

\* ---------------------------------------------------------------- keywords
Ids == 1..MaxId
Statuses == {"pending", "processing", "completed", "failed"}
Absent == "absent"

\* the only element of a one-element set
Val(S) == CHOOSE x \in S : TRUE
Range(s) == {s[i] : i \in 1..Len(s)}
RemoveAt(s, i) == SubSeq(s, 1, i - 1) \o SubSeq(s, i + 1, Len(s))

\* a.status === 'pending' && !a.blog_generated (KeywordsPage.tsx:165, 349, 383)
isUngenerated(k) == k.status = "pending" /\ ~k.blog_generated
isFailed(k) == k.status = "failed"

\* statusPriority[status] || 99 (KeywordsPage.tsx:172-180)
statusPriority(status) ==
  CASE status = "processing" -> 1
    [] status = "failed" -> 2
    [] status = "completed" -> 3
    [] status = "pending" -> 4
    [] OTHER -> 99

\* new Date(k.created_at || '').getTime(): {t}, or {} (NaN) without a date
getTime(k) == k.created_at

\* new Date(b...).getTime() - new Date(a...).getTime(): NaN when either is NaN
DateDiff(b, a) ==
  IF getTime(a) = {} \/ getTime(b) = {} THEN {} ELSE {Val(getTime(b)) - Val(getTime(a))}

\* the comparator of loadKeywords (KeywordsPage.tsx:163-193): {n} or {} (NaN)
compare(a, b) ==
  IF isUngenerated(a) /\ ~isUngenerated(b) THEN {-1}
  ELSE IF ~isUngenerated(a) /\ isUngenerated(b) THEN {1}
  ELSE IF isUngenerated(a) /\ isUngenerated(b) THEN DateDiff(b, a)
  ELSE IF statusPriority(a.status) # statusPriority(b.status)
    THEN {statusPriority(a.status) - statusPriority(b.status)}
  ELSE DateDiff(b, a)

\* Array.prototype.sort places a before b only on a negative result; 0 and NaN
\* leave the two in their given order (the sort is stable)
Before(a, b) == compare(a, b) # {} /\ Val(compare(a, b)) < 0

RECURSIVE InsertSorted(_, _)
InsertSorted(sorted, x) ==
  IF sorted = <<>> THEN <<x>>
  ELSE LET last == sorted[Len(sorted)]
       IN IF Before(x, last)
            THEN Append(InsertSorted(SubSeq(sorted, 1, Len(sorted) - 1), x), last)
            ELSE Append(sorted, x)

\* the fetched list shown in the order the store gave it
sortKeywordsAsFetched(data) == data

RECURSIVE sortKeywords(_)
sortKeywords(data) ==
  IF data = <<>> THEN <<>>
  ELSE InsertSorted(sortKeywords(SubSeq(data, 1, Len(data) - 1)), data[Len(data)])

\* derived values of a render (KeywordsPage.tsx:383-387)
eligibleKeywords == SelectSeq(keywords, isUngenerated)
failedKeywords == SelectSeq(keywords, isFailed)
IdsOf(list) == [i \in 1..Len(list) |-> list[i].id]
selectedEligibleCount ==
  Cardinality({i \in 1..Len(selectedKeywords) :
                 \E j \in 1..Len(eligibleKeywords) :
                   eligibleKeywords[j].id = selectedKeywords[i]})

\* selectedStore || stores[0]?.id || 1 (KeywordsPage.tsx:425, 459)
storeOrDefault ==
  IF selectedStore # 0 THEN selectedStore
  ELSE IF stores # <<>> /\ stores[1] # 0 THEN stores[1]
  ELSE 1

\* window.alert as the output of a step
NoAlert == [kind |-> "none", n |-> 0]
Alert(kind, n) == [kind |-> kind, n |-> n]

\* ---------------------------------------------------------------- store
\* The REST collaborator: one row per keyword id.
AbsentRow(i) == [id |-> i, status |-> Absent, blog_generated |-> FALSE, created_at |-> {i}]
PresentIds == {i \in Ids : db[i].status # Absent}

RECURSIVE Perms(_)
Perms(S) ==
  IF S = {} THEN {<<>>}
  ELSE UNION {{<<x>> \o p : p \in Perms(S \ {x})} : x \in S}

\* GET /api/keywords/: the present rows, in an order the store chooses
ListResponses == {[i \in 1..Len(p) |-> db[p[i]]] : p \in Perms(PresentIds)}

\* POST /api/blogs/generate, accepted: the eligible ids of the request are queued
Queue(ids) ==
  [i \in Ids |-> IF i \in Range(ids) /\ isUngenerated(db[i])
                   THEN [db[i] EXCEPT !.status = "processing"]
                   ELSE db[i]]

\* ---------------------------------------------------------------- tasks
\* A handler invocation awaiting the store is a task; its closure holds the
\* values of the render it was started from.
IdleRetry == [pc |-> "idle", target |-> 0, store_id |-> 0]
IdleGen == [kind |-> "none", pc |-> "idle", ids |-> <<>>, target |-> 0, store_id |-> 0,
            resets |-> [i \in Ids |-> "none"]]
IdleBulk == [pc |-> "idle", ids |-> <<>>, deleted |-> {}, deleted_count |-> 0]

\* loadKeywords() calls in flight that no handler awaits
FreeLoads == {i \in 1..Len(loads) : loads[i].parent = "none"}

InFlight ==
  Cardinality(FreeLoads)
  + Cardinality({i \in Ids : retry[i].pc # "idle"})
  + Cardinality({i \in Ids : del[i] # "idle"})
  + (IF genTask.kind # "none" THEN 1 ELSE 0)
  + (IF bulk.pc # "idle" THEN 1 ELSE 0)
  + Len(uploads)

\* a further user operation fits the bounds
MayStart == InFlight < MaxInFlight /\ userOps < MaxUserOps

\* both dialogs are modal: the page below takes no clicks while one is open
PageFree == ~generateDialogOpen /\ ~showErrorDialog
\* the table is replaced by a skeleton while loading (KeywordsPage.tsx:683)
TableShown == PageFree /\ ~loadingKeywords
Row(id) == {i \in 1..Len(keywords) : keywords[i].id = id}
Shown(id) == TableShown /\ Row(id) # {}
RowOf(id) == keywords[CHOOSE i \in Row(id) : TRUE]

\* loadKeywords() up to its await (KeywordsPage.tsx:157-160)
WithLoad(parent) ==
  Append(loads, [phase |-> "sent", data |-> <<>>, parent |-> parent, overtaken |-> FALSE])

\* the fetches in flight once the answer of fetch i is applied: those issued
\* before it are overtaken (a record kept for the properties; the page keeps
\* no such mark)
Overtake(i) ==
  [n \in 1..Len(loads) |->
     IF n < i THEN [loads[n] EXCEPT !.overtaken = TRUE] ELSE loads[n]]

\* ---------------------------------------------------------------- initial states
StagingInit ==
  /\ uploadedKeywords = <<>>
  /\ uploadStatus = "idle"
  /\ manualKeywords = <<>>
  /\ inputMethod = "file"
  /\ papa = <<>>
  /\ uploads = <<>>
  /\ campaignName = <<>>

PageInit ==
  /\ keywords = <<>>
  /\ selectedKeywords = <<>>
  /\ stores = <<>>
  /\ selectedStore = 0
  /\ generateDialogOpen = FALSE
  /\ generating = FALSE
  /\ keywordLoading = [i \in Ids |-> FALSE]
  /\ showErrorDialog = FALSE
  /\ alert = NoAlert

TasksIdle ==
  /\ retry = [i \in Ids |-> IdleRetry]
  /\ genTask = IdleGen
  /\ del = [i \in Ids |-> "idle"]
  /\ bulk = IdleBulk
  /\ userOps = 0

\* the store's list of the user's Shopify stores
StoreLists == {<<>>, <<2>>}

\* rows the store may hold when the page is opened: none, one waiting for
\* generation or one whose generation failed (the other statuses are reached
\* through generation)
StoredRows(i) ==
  {AbsentRow(i)} \cup
  {[id |-> i, status |-> s, blog_generated |-> FALSE, created_at |-> {i}] :
     s \in {"pending", "failed"}}

\* the page just mounted: the effect of KeywordsPage.tsx:137-155 has called
\* loadKeywords and loadStores
Init ==
  /\ StagingInit
  /\ PageInit
  /\ loadingKeywords = TRUE
  /\ db \in [Ids -> UNION {StoredRows(i) : i \in Ids}]
  /\ \A i \in Ids : db[i] \in StoredRows(i)
  /\ loads = <<[phase |-> "sent", data |-> <<>>, parent |-> "none", overtaken |-> FALSE]>>
  /\ storesLoad = "sent"
  /\ TasksIdle

\* ---------------------------------------------------------------- the store's calls
\* POST /api/keywords/{id}/reset is accepted for a failed keyword only
CanReset(id) == db[id].status = "failed"
ResetRow(id) == [db EXCEPT ![id] = [@ EXCEPT !.status = "pending", !.blog_generated = FALSE]]
\* DELETE /api/keywords/{id} removes a keyword at any status
CanDelete(id) == db[id].status # Absent
DeleteRows(D) == [i \in Ids |-> IF i \in D THEN AbsentRow(i) ELSE db[i]]

\* the generation worker finishes a queued keyword
Process(id) ==
  /\ db[id].status = "processing"
  /\ \/ db' = [db EXCEPT ![id] = [@ EXCEPT !.status = "completed", !.blog_generated = TRUE]]
     \/ db' = [db EXCEPT ![id] = [@ EXCEPT !.status = "failed"]]
  /\ alert' = NoAlert
  /\ UNCHANGED <<stagingVars, keywords, selectedKeywords, loadingKeywords, stores,
                 selectedStore, generateDialogOpen, generating, keywordLoading,
                 showErrorDialog, taskVars>>

\* ---------------------------------------------------------------- loading
\* A call to the store is one step when it fails (the handler resumes in its
\* catch) and one step when it succeeds (the store acts and the handler resumes
\* with the answer). GET /api/keywords/ alone takes two: the store answers, and
\* the answer is applied later.

\* the store answers GET /api/keywords/
ServeKeywords(i) ==
  /\ i \in 1..Len(loads)
  /\ loads[i].phase = "sent"
  /\ \E data \in ListResponses :
       loads' = [loads EXCEPT ![i] = [@ EXCEPT !.phase = "ok", !.data = data]]
  /\ alert' = NoAlert
  /\ UNCHANGED <<stagingVars, keywords, selectedKeywords, loadingKeywords, stores,
                 selectedStore, generateDialogOpen, generating, keywordLoading,
                 showErrorDialog, db, storesLoad, retry, genTask, del, bulk, userOps>>

\* the report naming the number of ids the request held
BulkReportRequested == Alert("bulk_deleted", Len(bulk.ids))

\* alert(`${result.deleted_count} keywords deleted successfully`)
\* (KeywordsPage.tsx:531)
BulkReport == Alert("bulk_deleted", bulk.deleted_count)

\* what the handler awaiting loadKeywords() does once it returns:
\* handleRetryFailedKeywords sends its generation request
\* (KeywordsPage.tsx:420-428), handleBulkDelete reports
\* (KeywordsPage.tsx:528-531); loadKeywordStats, awaited in between, touches
\* only the statistics cards and is left out
AfterLoad(parent) ==
  /\ genTask' = IF parent = "retryAll" THEN [genTask EXCEPT !.pc = "gen"] ELSE genTask
  /\ bulk' = IF parent = "bulk" THEN IdleBulk ELSE bulk
  /\ alert' = IF parent = "bulk" THEN BulkReport ELSE NoAlert

\* loadKeywords() after its await, the call having succeeded
\* (KeywordsPage.tsx:160-195, 198-200)
loadKeywordsOk(i) ==
  /\ i \in 1..Len(loads)
  /\ loads[i].phase = "ok"
  /\ keywords' = sortKeywords(loads[i].data)
  /\ loadingKeywords' = FALSE
  /\ loads' = RemoveAt(Overtake(i), i)
  /\ AfterLoad(loads[i].parent)
  /\ UNCHANGED <<stagingVars, selectedKeywords, stores, selectedStore, generateDialogOpen,
                 generating, keywordLoading, showErrorDialog, db, storesLoad, retry, del,
                 userOps>>

\* loadKeywords() after its await, the call having thrown
\* (KeywordsPage.tsx:196-200)
loadKeywordsErr(i) ==
  /\ i \in 1..Len(loads)
  /\ loads[i].phase = "sent"
  /\ showErrorDialog' = TRUE
  /\ loadingKeywords' = FALSE
  /\ loads' = RemoveAt(loads, i)
  /\ AfterLoad(loads[i].parent)
  /\ UNCHANGED <<stagingVars, keywords, selectedKeywords, stores, selectedStore,
                 generateDialogOpen, generating, keywordLoading, db, storesLoad, retry, del,
                 userOps>>

\* the Refresh button (KeywordsPage.tsx:611-618)
Refresh ==
  /\ PageFree /\ ~loadingKeywords /\ MayStart
  /\ loadingKeywords' = TRUE
  /\ loads' = WithLoad("none")
  /\ userOps' = userOps + 1
  /\ alert' = NoAlert
  /\ UNCHANGED <<stagingVars, keywords, selectedKeywords, stores, selectedStore,
                 generateDialogOpen, generating, keywordLoading, showErrorDialog, db,
                 storesLoad, retry, genTask, del, bulk>>

\* loadStores (KeywordsPage.tsx:203-213), the call having succeeded
loadStoresOk ==
  /\ storesLoad = "sent"
  /\ \E data \in StoreLists :
       /\ stores' = data
       /\ selectedStore' = IF Len(data) > 0 THEN data[1] ELSE selectedStore
  /\ storesLoad' = "done"
  /\ alert' = NoAlert
  /\ UNCHANGED <<stagingVars, keywords, selectedKeywords, loadingKeywords,
                 generateDialogOpen, generating, keywordLoading, showErrorDialog, db,
                 loads, retry, genTask, del, bulk, userOps>>

\* loadStores, the call having thrown
loadStoresErr ==
  /\ storesLoad = "sent"
  /\ storesLoad' = "done"
  /\ showErrorDialog' = TRUE
  /\ alert' = NoAlert
  /\ UNCHANGED <<stagingVars, keywords, selectedKeywords, loadingKeywords, stores,
                 selectedStore, generateDialogOpen, generating, keywordLoading, db,
                 loads, retry, genTask, del, bulk, userOps>>

\* the error dialog's Close button and onRetry, which only closes it
\* (KeywordsPage.tsx:1148-1156)
CloseErrorDialog ==
  /\ showErrorDialog
  /\ showErrorDialog' = FALSE
  /\ alert' = NoAlert
  /\ UNCHANGED <<stagingVars, keywords, selectedKeywords, loadingKeywords, stores,
                 selectedStore, generateDialogOpen, generating, keywordLoading, db,
                 taskVars>>

\* ---------------------------------------------------------------- selection
\* handleSelectKeyword (KeywordsPage.tsx:340-346): a row's checkbox
handleSelectKeyword(id) ==
  /\ Shown(id)
  /\ selectedKeywords' =
       IF id \in Range(selectedKeywords)
         THEN SelectSeq(selectedKeywords, LAMBDA x : x # id)
         ELSE Append(selectedKeywords, id)
  /\ alert' = NoAlert
  /\ UNCHANGED <<stagingVars, keywords, loadingKeywords, stores, selectedStore,
                 generateDialogOpen, generating, keywordLoading, showErrorDialog, db,
                 taskVars>>

\* handleSelectAll (KeywordsPage.tsx:348-355): select all, eligible only
handleSelectAll ==
  /\ PageFree
  /\ selectedKeywords' =
       IF Len(selectedKeywords) = Len(eligibleKeywords)
         THEN <<>>
         ELSE IdsOf(eligibleKeywords)
  /\ alert' = NoAlert
  /\ UNCHANGED <<stagingVars, keywords, loadingKeywords, stores, selectedStore,
                 generateDialogOpen, generating, keywordLoading, showErrorDialog, db,
                 taskVars>>

\* the Select All button and the header checkbox (KeywordsPage.tsx:620-633,
\* 697-708): select all, every known id
SelectAllClick ==
  /\ PageFree
  /\ Len(keywords) # 0
  /\ selectedKeywords' =
       IF Len(selectedKeywords) = Len(keywords) THEN <<>> ELSE IdsOf(keywords)
  /\ alert' = NoAlert
  /\ UNCHANGED <<stagingVars, keywords, loadingKeywords, stores, selectedStore,
                 generateDialogOpen, generating, keywordLoading, showErrorDialog, db,
                 taskVars>>

\* ---------------------------------------------------------------- generation
\* the Generate button of the action bar (KeywordsPage.tsx:663-671)
OpenGenerateDialog ==
  /\ PageFree
  /\ selectedEligibleCount # 0 /\ ~generating
  /\ generateDialogOpen' = TRUE
  /\ alert' = NoAlert
  /\ UNCHANGED <<stagingVars, keywords, selectedKeywords, loadingKeywords, stores,
                 selectedStore, generating, keywordLoading, showErrorDialog, db, taskVars>>

\* a row's Generate Blog button (KeywordsPage.tsx:785-799)
RowGenerateClick(id) ==
  /\ Shown(id)
  /\ isUngenerated(RowOf(id))
  /\ ~keywordLoading[id] /\ ~generating
  /\ selectedKeywords' = <<id>>
  /\ generateDialogOpen' = TRUE
  /\ alert' = NoAlert
  /\ UNCHANGED <<stagingVars, keywords, loadingKeywords, stores, selectedStore,
                 generating, keywordLoading, showErrorDialog, db, taskVars>>

\* Cancel / onClose of the generation dialog (KeywordsPage.tsx:1087, 1135)
CloseGenerateDialog ==
  /\ generateDialogOpen /\ ~showErrorDialog
  /\ generateDialogOpen' = FALSE
  /\ alert' = NoAlert
  /\ UNCHANGED <<stagingVars, keywords, selectedKeywords, loadingKeywords, stores,
                 selectedStore, generating, keywordLoading, showErrorDialog, db, taskVars>>

\* handleGenerateBlogs up to its await (KeywordsPage.tsx:358-368), from the
\* dialog's Generate button (KeywordsPage.tsx:1136-1143)
handleGenerateBlogs ==
  /\ generateDialogOpen /\ ~showErrorDialog
  /\ ~generating /\ selectedStore # 0
  /\ Len(selectedKeywords) # 0
  /\ MayStart
  /\ generating' = TRUE
  /\ genTask' = [IdleGen EXCEPT !.kind = "direct", !.pc = "gen",
                                !.ids = selectedKeywords,
                                !.target = selectedStore, !.store_id = selectedStore]
  /\ userOps' = userOps + 1
  /\ alert' = NoAlert
  /\ UNCHANGED <<stagingVars, keywords, selectedKeywords, loadingKeywords, stores,
                 selectedStore, generateDialogOpen, keywordLoading, showErrorDialog, db,
                 loads, storesLoad, retry, del, bulk>>

\* handleGenerateBlogs after its await, were it to mark the request's keywords
\* as processing in the list it shows without waiting for the fetch
handleGenerateBlogsOkMarksList ==
  /\ genTask.kind = "direct" /\ genTask.pc = "gen"
  /\ db' = Queue(genTask.ids)
  /\ keywords' = [k \in 1..Len(keywords) |->
                    IF keywords[k].id \in Range(genTask.ids)
                      THEN [keywords[k] EXCEPT !.status = "processing"]
                      ELSE keywords[k]]
  /\ generateDialogOpen' = FALSE
  /\ selectedKeywords' = <<>>
  /\ loadingKeywords' = TRUE
  /\ loads' = WithLoad("none")
  /\ alert' = Alert("queued", 0)
  /\ generating' = FALSE
  /\ genTask' = IdleGen
  /\ UNCHANGED <<stagingVars, stores, selectedStore, keywordLoading,
                 showErrorDialog, storesLoad, retry, del, bulk, userOps>>

\* a generation request that queues every keyword it names, generated or not
handleGenerateBlogsOkRegenerates ==
  /\ genTask.kind = "direct" /\ genTask.pc = "gen"
  /\ db' = [i \in Ids |-> IF i \in Range(genTask.ids) /\ db[i].status # Absent
                            THEN [db[i] EXCEPT !.status = "processing"]
                            ELSE db[i]]
  /\ generateDialogOpen' = FALSE
  /\ selectedKeywords' = <<>>
  /\ loadingKeywords' = TRUE
  /\ loads' = WithLoad("none")
  /\ alert' = Alert("queued", 0)
  /\ generating' = FALSE
  /\ genTask' = IdleGen
  /\ UNCHANGED <<stagingVars, keywords, stores, selectedStore, keywordLoading,
                 showErrorDialog, storesLoad, retry, del, bulk, userOps>>

\* handleGenerateBlogs after its await (KeywordsPage.tsx:370-375, 378-380),
\* the store having queued the request's eligible keywords
handleGenerateBlogsOk ==
  /\ genTask.kind = "direct" /\ genTask.pc = "gen"
  /\ db' = Queue(genTask.ids)
  /\ generateDialogOpen' = FALSE
  /\ selectedKeywords' = <<>>
  /\ loadingKeywords' = TRUE
  /\ loads' = WithLoad("none")
  /\ alert' = Alert("queued", 0)
  /\ generating' = FALSE
  /\ genTask' = IdleGen
  /\ UNCHANGED <<stagingVars, keywords, stores, selectedStore, keywordLoading,
                 showErrorDialog, storesLoad, retry, del, bulk, userOps>>

\* handleGenerateBlogs, the call having thrown (KeywordsPage.tsx:376-380)
handleGenerateBlogsErr ==
  /\ genTask.kind = "direct" /\ genTask.pc = "gen"
  /\ alert' = Alert("generate_failed", 0)
  /\ generating' = FALSE
  /\ genTask' = IdleGen
  /\ UNCHANGED <<stagingVars, keywords, selectedKeywords, loadingKeywords, stores,
                 selectedStore, generateDialogOpen, keywordLoading, showErrorDialog, db,
                 loads, storesLoad, retry, del, bulk, userOps>>

\* ---------------------------------------------------------------- retry all
\* handleRetryFailedKeywords up to Promise.all (KeywordsPage.tsx:390-409): one
\* reset call per failed keyword of the list
handleRetryFailedKeywords ==
  /\ PageFree
  /\ Len(failedKeywords) # 0 /\ ~generating
  /\ MayStart
  /\ generating' = TRUE
  /\ genTask' = [IdleGen EXCEPT
                   !.kind = "retryAll", !.pc = "resetting",
                   !.ids = IdsOf(failedKeywords),
                   !.target = selectedStore, !.store_id = storeOrDefault,
                   !.resets = [i \in Ids |->
                                 IF i \in Range(IdsOf(failedKeywords)) THEN "sent" ELSE "none"]]
  /\ userOps' = userOps + 1
  /\ alert' = NoAlert
  /\ UNCHANGED <<stagingVars, keywords, selectedKeywords, loadingKeywords, stores,
                 selectedStore, generateDialogOpen, keywordLoading, showErrorDialog, db,
                 loads, storesLoad, retry, del, bulk>>

\* the store resets one keyword of the batch: the mapped promise yields true
\* (KeywordsPage.tsx:401-402)
ResetOfAllOk(id) ==
  /\ genTask.pc = "resetting" /\ genTask.resets[id] = "sent"
  /\ CanReset(id)
  /\ db' = ResetRow(id)
  /\ genTask' = [genTask EXCEPT !.resets[id] = "ok"]
  /\ alert' = NoAlert
  /\ UNCHANGED <<stagingVars, keywords, selectedKeywords, loadingKeywords, stores,
                 selectedStore, generateDialogOpen, generating, keywordLoading,
                 showErrorDialog, loads, storesLoad, retry, del, bulk, userOps>>

\* the reset is refused or fails: the mapped promise yields false
\* (KeywordsPage.tsx:403-406)
ResetOfAllErr(id) ==
  /\ genTask.pc = "resetting" /\ genTask.resets[id] = "sent"
  /\ genTask' = [genTask EXCEPT !.resets[id] = "err"]
  /\ alert' = NoAlert
  /\ UNCHANGED <<stagingVars, keywords, selectedKeywords, loadingKeywords, stores,
                 selectedStore, generateDialogOpen, generating, keywordLoading,
                 showErrorDialog, db, loads, storesLoad, retry, del, bulk, userOps>>

\* resetResults.filter(Boolean).length (KeywordsPage.tsx:410)
successfulResets == Cardinality({i \in Ids : genTask.resets[i] = "ok"})

\* handleRetryFailedKeywords after Promise.all (KeywordsPage.tsx:409-420): it
\* throws when no reset succeeded (caught at 436-441), else waits a second and
\* awaits loadKeywords(); AfterLoad sends the generation request
handleRetryFailedResetsDone ==
  /\ genTask.pc = "resetting"
  /\ \A i \in Ids : genTask.resets[i] # "sent"
  /\ IF successfulResets = 0
       THEN /\ alert' = Alert("retry_failed", 0)
            /\ generating' = FALSE
            /\ genTask' = IdleGen
            /\ UNCHANGED <<loads, loadingKeywords>>
       ELSE /\ alert' = NoAlert
            /\ genTask' = [genTask EXCEPT !.pc = "reload"]
            /\ loads' = WithLoad("retryAll")
            /\ loadingKeywords' = TRUE
            /\ UNCHANGED generating
  /\ UNCHANGED <<stagingVars, keywords, selectedKeywords, stores, selectedStore,
                 generateDialogOpen, keywordLoading, showErrorDialog, db, storesLoad,
                 retry, del, bulk, userOps>>

\* handleRetryFailedKeywords after its generation call (KeywordsPage.tsx:430-434,
\* 439-441), the store having queued the request's eligible keywords
handleRetryFailedOk ==
  /\ genTask.kind = "retryAll" /\ genTask.pc = "gen"
  /\ db' = Queue(genTask.ids)
  /\ alert' = Alert("retry_initiated", successfulResets)
  /\ loadingKeywords' = TRUE
  /\ loads' = WithLoad("none")
  /\ generating' = FALSE
  /\ genTask' = IdleGen
  /\ UNCHANGED <<stagingVars, keywords, selectedKeywords, stores, selectedStore,
                 generateDialogOpen, keywordLoading, showErrorDialog, storesLoad,
                 retry, del, bulk, userOps>>

\* handleRetryFailedKeywords, the generation call having thrown
\* (KeywordsPage.tsx:436-441)
handleRetryFailedErr ==
  /\ genTask.kind = "retryAll" /\ genTask.pc = "gen"
  /\ alert' = Alert("retry_failed", 0)
  /\ generating' = FALSE
  /\ genTask' = IdleGen
  /\ UNCHANGED <<stagingVars, keywords, selectedKeywords, loadingKeywords, stores,
                 selectedStore, generateDialogOpen, keywordLoading, showErrorDialog, db,
                 loads, storesLoad, retry, del, bulk, userOps>>

\* ---------------------------------------------------------------- retry one
\* a handler that sends its generation request at once, not awaiting the reset
handleRetryIndividualKeywordAtOnce(id) ==
  /\ Shown(id)
  /\ isFailed(RowOf(id))
  /\ ~keywordLoading[id] /\ ~generating
  /\ retry[id].pc = "idle"
  /\ MayStart
  /\ keywordLoading' = [keywordLoading EXCEPT ![id] = TRUE]
  /\ retry' = [retry EXCEPT ![id] = [pc |-> "gen", target |-> selectedStore,
                                     store_id |-> storeOrDefault]]
  /\ userOps' = userOps + 1
  /\ alert' = NoAlert
  /\ UNCHANGED <<stagingVars, keywords, selectedKeywords, loadingKeywords, stores,
                 selectedStore, generateDialogOpen, generating, showErrorDialog, db,
                 loads, storesLoad, genTask, del, bulk>>

\* handleRetryIndividualKeyword up to its first await (KeywordsPage.tsx:445-450),
\* from a failed row's Retry Blog button (KeywordsPage.tsx:785-799)
handleRetryIndividualKeyword(id) ==
  /\ Shown(id)
  /\ isFailed(RowOf(id))
  /\ ~keywordLoading[id] /\ ~generating
  /\ retry[id].pc = "idle"
  /\ MayStart
  /\ keywordLoading' = [keywordLoading EXCEPT ![id] = TRUE]
  /\ retry' = [retry EXCEPT ![id] = [pc |-> "reset", target |-> selectedStore,
                                     store_id |-> storeOrDefault]]
  /\ userOps' = userOps + 1
  /\ alert' = NoAlert
  /\ UNCHANGED <<stagingVars, keywords, selectedKeywords, loadingKeywords, stores,
                 selectedStore, generateDialogOpen, generating, showErrorDialog, db,
                 loads, storesLoad, genTask, del, bulk>>

\* a reset the store accepts whatever the status of the keyword
handleRetryIndividualResetAnyStatus(id) ==
  /\ retry[id].pc = "reset"
  /\ CanDelete(id)
  /\ db' = ResetRow(id)
  /\ retry' = [retry EXCEPT ![id].pc = "reset_ok"]
  /\ alert' = NoAlert
  /\ UNCHANGED <<stagingVars, keywords, selectedKeywords, loadingKeywords, stores,
                 selectedStore, generateDialogOpen, generating, keywordLoading,
                 showErrorDialog, loads, storesLoad, genTask, del, bulk, userOps>>

\* the store resets the keyword and the handler resumes after its first await
\* (KeywordsPage.tsx:450-454): it starts its 500 ms wait
handleRetryIndividualReset(id) ==
  /\ retry[id].pc = "reset"
  /\ CanReset(id)
  /\ db' = ResetRow(id)
  /\ retry' = [retry EXCEPT ![id].pc = "reset_ok"]
  /\ alert' = NoAlert
  /\ UNCHANGED <<stagingVars, keywords, selectedKeywords, loadingKeywords, stores,
                 selectedStore, generateDialogOpen, generating, keywordLoading,
                 showErrorDialog, loads, storesLoad, genTask, del, bulk, userOps>>

\* handleRetryIndividualKeyword after the wait (KeywordsPage.tsx:454-462): it
\* sends the generation request
handleRetryIndividualGenerate(id) ==
  /\ retry[id].pc = "reset_ok"
  /\ retry' = [retry EXCEPT ![id].pc = "gen"]
  /\ alert' = NoAlert
  /\ UNCHANGED <<stagingVars, keywords, selectedKeywords, loadingKeywords, stores,
                 selectedStore, generateDialogOpen, generating, keywordLoading,
                 showErrorDialog, db, loads, storesLoad, genTask, del, bulk, userOps>>

\* a handler whose completion clears the markers of all keywords, not its own
handleRetryIndividualOkClearsAll(id) ==
  /\ retry[id].pc = "gen"
  /\ db' = Queue(<<id>>)
  /\ alert' = Alert("retry_initiated", 1)
  /\ loadingKeywords' = TRUE
  /\ loads' = WithLoad("none")
  /\ keywordLoading' = [i \in Ids |-> FALSE]
  /\ retry' = [retry EXCEPT ![id] = IdleRetry]
  /\ UNCHANGED <<stagingVars, keywords, selectedKeywords, stores, selectedStore,
                 generateDialogOpen, generating, showErrorDialog, storesLoad,
                 genTask, del, bulk, userOps>>

\* handleRetryIndividualKeyword after its generation call
\* (KeywordsPage.tsx:464-468, 473-475), the store having queued the keyword
handleRetryIndividualOk(id) ==
  /\ retry[id].pc = "gen"
  /\ db' = Queue(<<id>>)
  /\ alert' = Alert("retry_initiated", 1)
  /\ loadingKeywords' = TRUE
  /\ loads' = WithLoad("none")
  /\ keywordLoading' = [keywordLoading EXCEPT ![id] = FALSE]
  /\ retry' = [retry EXCEPT ![id] = IdleRetry]
  /\ UNCHANGED <<stagingVars, keywords, selectedKeywords, stores, selectedStore,
                 generateDialogOpen, generating, showErrorDialog, storesLoad,
                 genTask, del, bulk, userOps>>

\* a handler whose failed reset does not end it: it goes on to generation
handleRetryIndividualErrGoesOn(id) ==
  /\ retry[id].pc \in {"reset", "gen"}
  /\ IF retry[id].pc = "reset"
       THEN /\ retry' = [retry EXCEPT ![id].pc = "gen"]
            /\ UNCHANGED <<showErrorDialog, keywordLoading>>
       ELSE /\ showErrorDialog' = TRUE
            /\ keywordLoading' = [keywordLoading EXCEPT ![id] = FALSE]
            /\ retry' = [retry EXCEPT ![id] = IdleRetry]
  /\ alert' = NoAlert
  /\ UNCHANGED <<stagingVars, keywords, selectedKeywords, loadingKeywords, stores,
                 selectedStore, generateDialogOpen, generating, db, loads, storesLoad,
                 genTask, del, bulk, userOps>>

\* a handler that, its generation call having thrown, shows the error and
\* sends the reset again by itself
handleRetryIndividualErrRetries(id) ==
  /\ retry[id].pc \in {"reset", "gen"}
  /\ showErrorDialog' = TRUE
  /\ alert' = NoAlert
  /\ IF retry[id].pc = "gen"
       THEN /\ retry' = [retry EXCEPT ![id].pc = "reset"]
            /\ UNCHANGED keywordLoading
       ELSE /\ keywordLoading' = [keywordLoading EXCEPT ![id] = FALSE]
            /\ retry' = [retry EXCEPT ![id] = IdleRetry]
  /\ UNCHANGED <<stagingVars, keywords, selectedKeywords, loadingKeywords, stores,
                 selectedStore, generateDialogOpen, generating, db, loads, storesLoad,
                 genTask, del, bulk, userOps>>

\* handleRetryIndividualKeyword, either call having thrown
\* (KeywordsPage.tsx:470-475)
handleRetryIndividualErr(id) ==
  /\ retry[id].pc \in {"reset", "gen"}
  /\ showErrorDialog' = TRUE
  /\ alert' = NoAlert
  /\ keywordLoading' = [keywordLoading EXCEPT ![id] = FALSE]
  /\ retry' = [retry EXCEPT ![id] = IdleRetry]
  /\ UNCHANGED <<stagingVars, keywords, selectedKeywords, loadingKeywords, stores,
                 selectedStore, generateDialogOpen, generating, db, loads, storesLoad,
                 genTask, del, bulk, userOps>>

\* ---------------------------------------------------------------- delete
\* handleDeleteKeyword up to its await, the confirmation given
\* (KeywordsPage.tsx:479-485)
handleDeleteKeyword(id) ==
  /\ Shown(id)
  /\ del[id] = "idle"
  /\ MayStart
  /\ del' = [del EXCEPT ![id] = "sent"]
  /\ userOps' = userOps + 1
  /\ alert' = NoAlert
  /\ UNCHANGED <<stagingVars, keywords, selectedKeywords, loadingKeywords, stores,
                 selectedStore, generateDialogOpen, generating, keywordLoading,
                 showErrorDialog, db, loads, storesLoad, retry, genTask, bulk>>

\* handleDeleteKeyword after its await (KeywordsPage.tsx:487-493), the store
\* having deleted the keyword
handleDeleteKeywordOk(id) ==
  /\ del[id] = "sent"
  /\ CanDelete(id)
  /\ db' = DeleteRows({id})
  /\ selectedKeywords' = SelectSeq(selectedKeywords, LAMBDA x : x # id)
  /\ alert' = Alert("deleted", 1)
  /\ loadingKeywords' = TRUE
  /\ loads' = WithLoad("none")
  /\ del' = [del EXCEPT ![id] = "idle"]
  /\ UNCHANGED <<stagingVars, keywords, stores, selectedStore, generateDialogOpen,
                 generating, keywordLoading, showErrorDialog, storesLoad, retry,
                 genTask, bulk, userOps>>

\* handleDeleteKeyword, the call having thrown (KeywordsPage.tsx:494-497)
handleDeleteKeywordErr(id) ==
  /\ del[id] = "sent"
  /\ alert' = Alert("delete_failed", 0)
  /\ del' = [del EXCEPT ![id] = "idle"]
  /\ UNCHANGED <<stagingVars, keywords, selectedKeywords, loadingKeywords, stores,
                 selectedStore, generateDialogOpen, generating, keywordLoading,
                 showErrorDialog, db, loads, storesLoad, retry, genTask, bulk, userOps>>

\* ---------------------------------------------------------------- bulk delete
\* handleBulkDelete up to its await, the confirmation given
\* (KeywordsPage.tsx:501-522), from the Delete Selected button
\* (KeywordsPage.tsx:635-644)
handleBulkDelete ==
  /\ PageFree
  /\ Len(selectedKeywords) # 0
  /\ bulk.pc = "idle"
  /\ MayStart
  /\ bulk' = [IdleBulk EXCEPT !.pc = "sent", !.ids = selectedKeywords]
  /\ userOps' = userOps + 1
  /\ alert' = NoAlert
  /\ UNCHANGED <<stagingVars, keywords, selectedKeywords, loadingKeywords, stores,
                 selectedStore, generateDialogOpen, generating, keywordLoading,
                 showErrorDialog, db, loads, storesLoad, retry, genTask, del>>

\* handleBulkDelete after its first await (KeywordsPage.tsx:522-528): the
\* store (POST /api/keywords/bulk-delete) has deleted those of the request's
\* keywords it could, D, and answered with their number; the handler clears
\* the selection and awaits loadKeywords(); AfterLoad reports
handleBulkDeleteOk ==
  /\ bulk.pc = "sent"
  /\ \E D \in SUBSET (Range(bulk.ids) \cap PresentIds) :
       /\ db' = DeleteRows(D)
       /\ bulk' = [bulk EXCEPT !.pc = "reload", !.deleted = D,
                               !.deleted_count = Cardinality(D)]
  /\ selectedKeywords' = <<>>
  /\ loadingKeywords' = TRUE
  /\ loads' = WithLoad("bulk")
  /\ alert' = NoAlert
  /\ UNCHANGED <<stagingVars, keywords, stores, selectedStore, generateDialogOpen,
                 generating, keywordLoading, showErrorDialog, storesLoad, retry,
                 genTask, del, userOps>>

\* handleBulkDelete, the call having thrown (KeywordsPage.tsx:532-535)
handleBulkDeleteErr ==
  /\ bulk.pc = "sent"
  /\ alert' = Alert("bulk_delete_failed", 0)
  /\ bulk' = IdleBulk
  /\ UNCHANGED <<stagingVars, keywords, selectedKeywords, loadingKeywords, stores,
                 selectedStore, generateDialogOpen, generating, keywordLoading,
                 showErrorDialog, db, loads, storesLoad, retry, genTask, del, userOps>>

\* ---------------------------------------------------------------- staging
\* the input-method radio group (KeywordsPage.tsx:852-861): choosing the other
\* method empties the buffer and the text field
setInputMethod(m) ==
  /\ PageFree
  /\ m # inputMethod
  /\ inputMethod' = m
  /\ uploadedKeywords' = <<>>
  /\ uploadStatus' = "idle"
  /\ manualKeywords' = <<>>
  /\ alert' = NoAlert
  /\ UNCHANGED <<campaignName, papa, uploads, keywords, selectedKeywords, loadingKeywords, stores,
                 selectedStore, generateDialogOpen, generating, keywordLoading,
                 showErrorDialog, db, taskVars>>

\* the Campaign Name text field (KeywordsPage.tsx:929-935): typing sets the
\* name and nothing else
setCampaignName(name) ==
  /\ PageFree
  /\ name # campaignName
  /\ campaignName' = name
  /\ alert' = NoAlert
  /\ UNCHANGED <<uploadedKeywords, uploadStatus, manualKeywords, inputMethod, papa,
                 uploads, keywords, selectedKeywords, loadingKeywords, stores,
                 selectedStore, generateDialogOpen, generating, keywordLoading,
                 showErrorDialog, db, taskVars>>

\* the text field of the manual tab (KeywordsPage.tsx:903-915): typing sets
\* the text and nothing else
setManualKeywords(text) ==
  /\ PageFree
  /\ inputMethod = "manual"
  /\ text # manualKeywords
  /\ manualKeywords' = text
  /\ alert' = NoAlert
  /\ UNCHANGED <<uploadedKeywords, uploadStatus, campaignName, inputMethod, papa,
                 uploads, keywords, selectedKeywords, loadingKeywords, stores,
                 selectedStore, generateDialogOpen, generating, keywordLoading,
                 showErrorDialog, db, taskVars>>

\* handleManualKeywords (KeywordsPage.tsx:306-337), from the Process Keywords
\* button of the manual tab, disabled while uploading (KeywordsPage.tsx:917-919)
handleManualKeywords ==
  /\ PageFree
  /\ inputMethod = "manual" /\ uploadStatus # "uploading"
  /\ IF trim(manualKeywords) = <<>>
       THEN /\ uploadStatus' = "error"
            /\ UNCHANGED uploadedKeywords
       ELSE /\ uploadedKeywords' = ParseManual(manualKeywords)
            /\ uploadStatus' = "success"
  /\ alert' = NoAlert
  /\ UNCHANGED <<campaignName, manualKeywords, inputMethod, papa, uploads, keywords, selectedKeywords,
                 loadingKeywords, stores, selectedStore, generateDialogOpen, generating,
                 keywordLoading, showErrorDialog, db, taskVars>>

\* onDrop up to Papa.parse (KeywordsPage.tsx:229-236): the file is handed to
\* the parser, which calls back later; one file is dropped on the fresh tab
\* and none while it is being parsed
onDrop ==
  /\ PageFree
  /\ inputMethod = "file"
  /\ papa = <<>> /\ uploadStatus = "idle"
  /\ uploadStatus' = "uploading"
  /\ \E file \in CsvFiles : papa' = <<file>>
  /\ alert' = NoAlert
  /\ UNCHANGED <<uploadedKeywords, campaignName, manualKeywords, inputMethod, uploads, keywords,
                 selectedKeywords, loadingKeywords, stores, selectedStore,
                 generateDialogOpen, generating, keywordLoading, showErrorDialog, db,
                 taskVars>>

\* the complete callback of Papa.parse (KeywordsPage.tsx:238-251)
onDropComplete ==
  /\ papa # <<>>
  /\ uploadedKeywords' = ParseCsv(papa[1])
  /\ uploadStatus' = "success"
  /\ papa' = <<>>
  /\ alert' = NoAlert
  /\ UNCHANGED <<campaignName, manualKeywords, inputMethod, uploads, keywords, selectedKeywords,
                 loadingKeywords, stores, selectedStore, generateDialogOpen, generating,
                 keywordLoading, showErrorDialog, db, taskVars>>

\* the error callback of Papa.parse (KeywordsPage.tsx:252-255)
onDropError ==
  /\ papa # <<>>
  /\ uploadStatus' = "error"
  /\ papa' = <<>>
  /\ alert' = NoAlert
  /\ UNCHANGED <<uploadedKeywords, campaignName, manualKeywords, inputMethod, uploads, keywords,
                 selectedKeywords, loadingKeywords, stores, selectedStore,
                 generateDialogOpen, generating, keywordLoading, showErrorDialog, db,
                 taskVars>>

\* POST /api/keywords/upload, accepted: the store creates the keywords N,
\* each pending with no blog generated
CreateRows(N) ==
  [i \in Ids |-> IF i \in N
                   THEN [id |-> i, status |-> "pending", blog_generated |-> FALSE,
                         created_at |-> {i}]
                   ELSE db[i]]

\* handleUploadToBackend up to its await (KeywordsPage.tsx:269-290), from the
\* Upload to Server button, shown for a buffer that is not empty and disabled
\* while uploading (KeywordsPage.tsx:1038-1049): the buffer is sent as one file
handleUploadToBackend ==
  /\ PageFree
  /\ Len(uploadedKeywords) # 0 /\ uploadStatus # "uploading"
  /\ MayStart
  /\ uploadStatus' = "uploading"
  /\ uploads' = Append(uploads, uploadedKeywords)
  /\ userOps' = userOps + 1
  /\ alert' = NoAlert
  /\ UNCHANGED <<uploadedKeywords, campaignName, manualKeywords, inputMethod, papa, keywords,
                 selectedKeywords, loadingKeywords, stores, selectedStore,
                 generateDialogOpen, generating, keywordLoading, showErrorDialog, db,
                 loads, storesLoad, retry, genTask, del, bulk>>

\* handleUploadToBackend after its await (KeywordsPage.tsx:291-297), the store
\* having created at most one keyword per record of the file
handleUploadToBackendOk(k) ==
  /\ k \in 1..Len(uploads)
  /\ \E N \in SUBSET (Ids \ PresentIds) :
       /\ Cardinality(N) <= Len(uploads[k])
       /\ db' = CreateRows(N)
  /\ uploadStatus' = "success"
  /\ uploadedKeywords' = <<>>
  /\ campaignName' = <<>>
  /\ loadingKeywords' = TRUE
  /\ loads' = WithLoad("none")
  /\ uploads' = RemoveAt(uploads, k)
  /\ alert' = NoAlert
  /\ UNCHANGED <<manualKeywords, inputMethod, papa, keywords, selectedKeywords, stores,
                 selectedStore, generateDialogOpen, generating, keywordLoading,
                 showErrorDialog, storesLoad, retry, genTask, del, bulk, userOps>>

\* handleUploadToBackend, the call having thrown, were the catch block to
\* empty the buffer as the success path does
handleUploadToBackendErrClears(k) ==
  /\ k \in 1..Len(uploads)
  /\ uploadStatus' = "error"
  /\ uploadedKeywords' = <<>>
  /\ showErrorDialog' = TRUE
  /\ uploads' = RemoveAt(uploads, k)
  /\ alert' = NoAlert
  /\ UNCHANGED <<campaignName, manualKeywords, inputMethod, papa, keywords,
                 selectedKeywords, loadingKeywords, stores, selectedStore,
                 generateDialogOpen, generating, keywordLoading, db, loads, storesLoad,
                 retry, genTask, del, bulk, userOps>>

\* handleUploadToBackend, the call having thrown (KeywordsPage.tsx:298-302)
handleUploadToBackendErr(k) ==
  /\ k \in 1..Len(uploads)
  /\ uploadStatus' = "error"
  /\ showErrorDialog' = TRUE
  /\ uploads' = RemoveAt(uploads, k)
  /\ alert' = NoAlert
  /\ UNCHANGED <<uploadedKeywords, campaignName, manualKeywords, inputMethod, papa, keywords,
                 selectedKeywords, loadingKeywords, stores, selectedStore,
                 generateDialogOpen, generating, keywordLoading, db, loads, storesLoad,
                 retry, genTask, del, bulk, userOps>>

\* ---------------------------------------------------------------- specification
Next ==
  \/ \E i \in 1..(MaxInFlight + 1) :
       ServeKeywords(i) \/ loadKeywordsOk(i) \/ loadKeywordsErr(i)
  \/ Refresh \/ loadStoresOk \/ loadStoresErr \/ CloseErrorDialog
  \/ handleSelectAll \/ SelectAllClick
  \/ OpenGenerateDialog \/ CloseGenerateDialog
  \/ handleGenerateBlogs \/ handleGenerateBlogsOk \/ handleGenerateBlogsErr
  \/ handleRetryFailedKeywords \/ handleRetryFailedResetsDone
  \/ handleRetryFailedOk \/ handleRetryFailedErr
  \/ handleBulkDelete \/ handleBulkDeleteOk \/ handleBulkDeleteErr
  \/ \E id \in Ids :
       \/ handleSelectKeyword(id) \/ RowGenerateClick(id) \/ Process(id)
       \/ ResetOfAllOk(id) \/ ResetOfAllErr(id)
       \/ handleRetryIndividualKeyword(id) \/ handleRetryIndividualReset(id)
       \/ handleRetryIndividualGenerate(id)
       \/ handleRetryIndividualOk(id) \/ handleRetryIndividualErr(id)
       \/ handleDeleteKeyword(id) \/ handleDeleteKeywordOk(id)
       \/ handleDeleteKeywordErr(id)

Spec == Init /\ [][Next]_vars

\* ---------------------------------------------------------------- parsing alone
\* The upload tab on its own: the keywords tab is at rest over an empty store,
\* and the text field holds any text of the alphabet up to MaxLen.
PageAtRest ==
  /\ PageInit
  /\ loadingKeywords = FALSE
  /\ db = [i \in Ids |-> AbsentRow(i)]
  /\ loads = <<>>
  /\ storesLoad = "done"
  /\ TasksIdle

InitParse ==
  /\ uploadedKeywords = <<>>
  /\ uploadStatus = "idle"
  /\ papa = <<>>
  /\ uploads = <<>>
  /\ campaignName = <<>>
  /\ inputMethod \in {"file", "manual"}
  /\ manualKeywords \in (IF inputMethod = "manual" THEN RawTexts ELSE {<<>>})
  /\ PageAtRest

NextParse ==
  \/ \E m \in {"file", "manual"} : setInputMethod(m)
  \/ handleManualKeywords
  \/ onDrop
  \/ onDropComplete
  \/ onDropError

SpecParse == InitParse /\ [][NextParse]_vars

\* ---------------------------------------------------------------- uploading alone
\* The upload tab with the store behind it: the keywords tab is at rest over
\* an empty store, and the text field holds any text up to MaxUploadLen.
UploadTexts == SeqsUpTo(Alphabet, MaxUploadLen)
CampaignNames == {<<>>, <<"c">>}
TypedTexts == {<<"c">>, <<"5">>}

InitUpload ==
  /\ uploadedKeywords = <<>>
  /\ uploadStatus = "idle"
  /\ papa = <<>>
  /\ uploads = <<>>
  /\ campaignName = <<>>
  /\ inputMethod = "manual"
  /\ manualKeywords \in UploadTexts
  /\ PageAtRest

NextUpload ==
  \/ \E m \in {"file", "manual"} : setInputMethod(m)
  \/ \E name \in CampaignNames : setCampaignName(name)
  \/ \E text \in TypedTexts : setManualKeywords(text)
  \/ handleManualKeywords
  \/ handleUploadToBackend
  \/ \E k \in 1..MaxInFlight : handleUploadToBackendOk(k) \/ handleUploadToBackendErr(k)
  \/ \E i \in 1..(MaxInFlight + 1) :
       ServeKeywords(i) \/ loadKeywordsOk(i) \/ loadKeywordsErr(i)
  \/ CloseErrorDialog

SpecUpload == InitUpload /\ [][NextUpload]_vars

\* ---------------------------------------------------------------- sorting alone
\* One fetch whose answer, any list of up to MaxList records, has arrived.
OtherStatus == "archived"
FetchedRecords(i) ==
  [id : {i}, status : Statuses \cup {OtherStatus}, blog_generated : BOOLEAN,
   created_at : {{}} \cup {{t} : t \in 0..MaxTime}]
FetchedLists ==
  UNION {{f \in [1..n -> UNION {FetchedRecords(i) : i \in 1..n}] :
            \A i \in 1..n : f[i].id = i} : n \in 0..MaxList}

InitSort ==
  /\ StagingInit
  /\ PageInit
  /\ loadingKeywords = TRUE
  /\ db = [i \in Ids |-> AbsentRow(i)]
  /\ \E data \in FetchedLists :
       loads = <<[phase |-> "ok", data |-> data, parent |-> "none",
                  overtaken |-> FALSE]>>
  /\ storesLoad = "done"
  /\ TasksIdle

NextSort == loadKeywordsOk(1)

SpecSort == InitSort /\ [][NextSort]_vars

\* ---------------------------------------------------------------- properties
\* C1: after parsing, no two records of the staging buffer have the same text
\* compared case-insensitively (of several entries with the same text only the
\* first is staged)
StagedTextsDistinct ==
  LET toLowerCase(s) == [i \in 1..Len(s) |-> IF s[i] = "C" THEN "c" ELSE s[i]]
  IN \A i, j \in 1..Len(uploadedKeywords) :
       i # j => toLowerCase(uploadedKeywords[i].keyword)
                  # toLowerCase(uploadedKeywords[j].keyword)

\* C2: the generation request of a retry of all failed keywords holds exactly
\* the ids whose reset succeeded, never one whose reset failed
RetryAllRequestsOnlyReset ==
  (genTask.kind = "retryAll" /\ genTask.pc = "gen")
    => Range(genTask.ids) = {i \in Ids : genTask.resets[i] = "ok"}

\* C3: a generation request submitted from the dialog holds only ids that are
\* eligible (pending, no blog generated) in the list at the moment it is sent
GenerateRequestsOnlyEligible ==
  [][handleGenerateBlogs =>
       Range(genTask'.ids) \subseteq Range(IdsOf(eligibleKeywords))]_vars

\* C4: no generation request is in flight with an unset target store or an
\* empty id set, whichever path sent it
NoRequestWithoutStoreOrIds ==
  /\ genTask.pc = "gen" => (genTask.target # 0 /\ genTask.ids # <<>>)
  /\ \A id \in Ids : retry[id].pc = "gen" => retry[id].target # 0

\* C5: a retry whose keyword is not failed in the store when its reset call is
\* served ends there with the error shown, sends no generation request and
\* leaves the keyword as it is
RetryOfNotFailedFails ==
  [][\A id \in Ids :
       (retry[id].pc = "reset" /\ db[id].status # "failed" /\ retry'[id] # retry[id])
         => /\ retry'[id] = IdleRetry
            /\ showErrorDialog'
            /\ db'[id] = db[id]]_vars

\* C5 witness: a retry is awaiting its reset call for a keyword the store
\* holds as pending
RetryOfNotFailedInFlight ==
  \E id \in Ids : retry[id].pc = "reset" /\ db[id].status = "pending"

\* C6: a retry sends its generation request only once its reset has been
\* acknowledged, the acknowledged reset leaves the keyword pending, and a
\* failed generation call changes nothing in the store and shows the error
RetryResetsThenGenerates ==
  [][\A id \in Ids :
       /\ (retry[id].pc # "gen" /\ retry'[id].pc = "gen") => retry[id].pc = "reset_ok"
       /\ (retry[id].pc = "reset" /\ retry'[id].pc = "reset_ok")
            => db'[id].status = "pending"
       /\ (retry[id].pc = "gen" /\ retry'[id].pc = "idle"
             /\ alert'.kind # "retry_initiated")
            => (db' = db /\ showErrorDialog')]_vars

\* C6 witness: the reset of a retry has been acknowledged, the keyword is
\* pending in the store and the generation request is out
RetryGenerationOut ==
  \E id \in Ids : retry[id].pc = "gen" /\ db[id].status = "pending"

\* C7: whenever a mutating call to the store completes (a generation request,
\* the resets of a retry, a delete, a bulk delete), having succeeded or failed,
\* the page issues a fetch of the keywords
FetchAfterEveryMutatingCall ==
  [][(\/ handleGenerateBlogsOk \/ handleGenerateBlogsErr
      \/ handleRetryFailedResetsDone \/ handleRetryFailedOk \/ handleRetryFailedErr
      \/ handleBulkDeleteOk \/ handleBulkDeleteErr
      \/ \E id \in Ids :
           \/ handleRetryIndividualOk(id) \/ handleRetryIndividualErr(id)
           \/ handleDeleteKeywordOk(id) \/ handleDeleteKeywordErr(id))
       => Len(loads') = Len(loads) + 1]_vars

\* C8: a bulk delete of which only some deletions succeed reports the number
\* of keywords actually deleted; the others stay in the store as they were,
\* and the fetch that follows returns the store's keywords, the others among
\* them and the deleted ones not
BulkDeletePartialFailure ==
  [][/\ handleBulkDeleteOk =>
          /\ bulk'.deleted_count = Cardinality(PresentIds \ {i \in Ids : db'[i].status # Absent})
          /\ \A i \in Range(bulk.ids) \ bulk'.deleted : db'[i] = db[i]
          /\ \A i \in bulk'.deleted : db'[i].status = Absent
     /\ \A i \in 1..Len(loads) :
           (loads[i].parent = "bulk" /\ ServeKeywords(i))
             => /\ Range(IdsOf(loads'[i].data)) = PresentIds
                /\ Range(IdsOf(loads'[i].data)) \cap bulk.deleted = {}
                /\ (Range(bulk.ids) \ bulk.deleted) \cap PresentIds
                     \subseteq Range(IdsOf(loads'[i].data))
     /\ (bulk.pc = "reload" /\ bulk'.pc = "idle")
           => alert' = Alert("bulk_deleted", Cardinality(bulk.deleted))]_vars

\* C8 witness: of two keywords of a bulk delete one was deleted and one was
\* not, and the fetch that follows has been answered
BulkDeleteOneOfTwo ==
  /\ bulk.pc = "reload" /\ Len(bulk.ids) = 2 /\ bulk.deleted_count = 1
  /\ \E i \in 1..Len(loads) :
       /\ loads[i].parent = "bulk" /\ loads[i].phase = "ok"
       /\ Range(IdsOf(loads[i].data)) = Range(bulk.ids) \ bulk.deleted

\* C9: select-all of the eligible keywords leaves every eligible id, and no
\* other id it added, selected; select-all of all keywords leaves every known
\* id selected; neither empties the selection because of its size
SelectAllSelects ==
  [][/\ handleSelectAll =>
          /\ Range(IdsOf(eligibleKeywords)) \subseteq Range(selectedKeywords')
          /\ Range(selectedKeywords') \ Range(selectedKeywords)
               \subseteq Range(IdsOf(eligibleKeywords))
     /\ SelectAllClick => Range(IdsOf(keywords)) \subseteq Range(selectedKeywords')]_vars

\* C10: in the list a fetch produces every ungenerated keyword precedes every
\* other keyword, and of two ungenerated keywords the one created later
\* precedes the one created earlier
UngeneratedFirstNewestFirst ==
  loads = <<>> =>
    \A i, j \in 1..Len(keywords) :
      i < j =>
        /\ ~(isUngenerated(keywords[j]) /\ ~isUngenerated(keywords[i]))
        /\ (/\ isUngenerated(keywords[i]) /\ isUngenerated(keywords[j])
            /\ getTime(keywords[i]) # {} /\ getTime(keywords[j]) # {})
             => Val(getTime(keywords[i])) >= Val(getTime(keywords[j]))

StagedRecordsWellFormed ==
  [][((handleManualKeywords /\ uploadStatus' = "success") \/ onDropComplete) =>
       /\ \A i \in 1..Len(uploadedKeywords') :
            /\ trim(uploadedKeywords'[i].keyword) # <<>>
            /\ uploadedKeywords'[i].category # <<>>
       /\ Len(uploadedKeywords') <=
            (IF onDropComplete THEN Len(papa[1].rows)
                               ELSE Len(split(manualKeywords, LF)))]_vars

UploadFailureKeepsBuffer ==
  [][/\ (Len(uploads') < Len(uploads) /\ uploadStatus' = "error") =>
          /\ uploadedKeywords' = uploadedKeywords
          /\ showErrorDialog'
          /\ Len(uploads') = Len(uploads) - 1
          /\ \A j \in 1..Len(uploads') : \E k \in 1..Len(uploads) : uploads'[j] = uploads[k]
     /\ (Len(uploads') # Len(uploads) /\ uploadedKeywords # <<>> /\ uploadedKeywords' = <<>>) =>
          /\ Len(uploads') < Len(uploads)
          /\ uploadStatus' = "success"]_vars

\* C15 witness: an upload has failed, the error is shown, the buffer still
\* holds its records and no request is out
FailedUploadBufferKept ==
  /\ showErrorDialog
  /\ uploadStatus = "error"
  /\ uploadedKeywords # <<>>
  /\ uploads = <<>>


\* C16: a delete or bulk delete that succeeds takes the deleted ids, and no
\* others, out of the selection; a delete or bulk delete that fails leaves the
\* selection as it was
DeleteDeselectsOnlyDeleted ==
  [][LET Deleted == {i \in Ids : db[i].status # Absent /\ db'[i].status = Absent}
     IN /\ (handleBulkDeleteOk \/ \E id \in Ids : handleDeleteKeywordOk(id)) =>
             Range(selectedKeywords') = Range(selectedKeywords) \ Deleted
        /\ (handleBulkDeleteErr \/ \E id \in Ids : handleDeleteKeywordErr(id)) =>
             selectedKeywords' = selectedKeywords]_vars


\* C17: a parsed CSV file stages, in the file's order, one record for each row
\* with a value in a keyword column (keyword, keywords, search_term); the
\* record's text is that value, its volume the number in search_volume or
\* volume and its difficulty the number in keyword_difficulty, difficulty or
\* kd, absent where the cell holds no number; the other rows are dropped and
\* the parse reports success
CsvRowsBecomeRecords ==
  [][onDropComplete =>
       LET rows == SelectSeq(PapaParse(papa[1]), RowHasKeyword)
       IN /\ uploadStatus' = "success"
          /\ Len(uploadedKeywords') = Len(rows)
          /\ \A i \in 1..Len(rows) :
               /\ uploadedKeywords'[i].keyword =
                    Or3(rows[i].keyword, rows[i].keywords, rows[i].search_term)
               /\ uploadedKeywords'[i].search_volume =
                    parseInt(Or3(rows[i].search_volume, rows[i].volume, <<>>))
               /\ uploadedKeywords'[i].keyword_difficulty =
                    parseFloat(Or3(rows[i].keyword_difficulty, rows[i].difficulty,
                                   rows[i].kd))]_vars


\* C18: in the list a fetch produces, of two keywords that are not ungenerated
\* the one whose status has the lower priority number (processing, failed,
\* completed, pending with a blog generated, any other status) comes first,
\* and of two with the same priority the one created later comes first
GeneratedByPriorityNewestFirst ==
  loads = <<>> =>
    \A i, j \in 1..Len(keywords) :
      (i < j /\ ~isUngenerated(keywords[i]) /\ ~isUngenerated(keywords[j])) =>
        /\ statusPriority(keywords[i].status) <= statusPriority(keywords[j].status)
        /\ (/\ statusPriority(keywords[i].status) = statusPriority(keywords[j].status)
            /\ getTime(keywords[i]) # {} /\ getTime(keywords[j]) # {})
             => Val(getTime(keywords[i])) >= Val(getTime(keywords[j]))


\* C19: the comparison of the sort is a total order on the records of a
\* fetched list (a before b excludes b before a, and a not after b and b not
\* after c give a not after c), so the list a fetch produces is the same for
\* every order in which the store may return those records, up to the places
\* of records that compare equal
SortIsOrderIndependent ==
  [][\A n \in 1..Len(loads) :
       loadKeywordsOk(n) =>
         LET data == loads[n].data
             NotAfter(a, b) == ~Before(b, a)
         IN /\ \A a, b \in Range(data) : Before(a, b) => ~Before(b, a)
            /\ \A a, b, c \in Range(data) :
                 (NotAfter(a, b) /\ NotAfter(b, c)) => NotAfter(a, c)
            /\ \A p \in Perms(1..Len(data)) :
                 LET other == sortKeywords([k \in 1..Len(data) |-> data[p[k]]])
                 IN \A k \in 1..Len(data) :
                      /\ NotAfter(keywords'[k], other[k])
                      /\ NotAfter(other[k], keywords'[k])]_vars


\* C20: a step in which the store queues keywords for generation leaves the
\* list the page shows as it is, and the list changes only in a step that
\* applies the answer of a fetch, to that answer sorted
ListChangesOnlyByFetch ==
  [][/\ (\E i \in Ids : db'[i].status = "processing" /\ db[i].status # "processing")
          => keywords' = keywords
     /\ keywords' # keywords =>
          \E n \in 1..Len(loads) :
            /\ loads[n].phase = "ok"
            /\ keywords' = sortKeywords(loads[n].data)
            /\ Len(loads') = Len(loads) - 1]_vars

\* C20 witness: the store has queued a keyword and no fetch has been applied
\* since; the list still shows the keyword as pending
QueuedShownPending ==
  \E k \in 1..Len(keywords) :
    /\ keywords[k].status = "pending"
    /\ db[keywords[k].id].status = "processing"
    /\ genTask = IdleGen
    /\ alert.kind = "queued"


\* C21: a step that changes the input mode or the campaign leaves the staging
\* buffer empty, and a parse that changes the buffer puts the records of the
\* parsed input in the place of whatever the buffer held
BufferClearedOnSwitch ==
  [][/\ (inputMethod' # inputMethod \/ campaignName' # campaignName) =>
          uploadedKeywords' = <<>>
     /\ (handleManualKeywords /\ uploadedKeywords' # uploadedKeywords) =>
          uploadedKeywords' = ParseManual(manualKeywords)]_vars


\* C22: every record that an upload which succeeds removes from the staging
\* buffer is a record the request submitted
UploadClearsOnlySubmitted ==
  [][\A k \in 1..Len(uploads) :
       handleUploadToBackendOk(k) =>
         Range(uploadedKeywords) \subseteq Range(uploads[k])]_vars


\* C23: a parse of a raw input that yields no record, whether the input is
\* empty or every one of its lines is dropped, ends in the error status,
\* reports no success and leaves the staging buffer as it was
EmptyParseIsAnError ==
  [][(handleManualKeywords /\ ParseManual(manualKeywords) = <<>>) =>
       /\ uploadStatus' = "error"
       /\ uploadedKeywords' = uploadedKeywords]_vars


\* C24: a retry of all failed keywords whose resets have all been answered
\* does not end without reporting the number of resets that succeeded, also
\* when that number is zero: it goes on to the fetch and the generation
\* request, or reports the count
RetryAllReportsCounts ==
  [][(genTask.kind = "retryAll" /\ genTask.pc = "resetting" /\ genTask' = IdleGen) =>
       /\ alert'.kind = "retry_initiated"
       /\ alert'.n = successfulResets]_vars


OneFetchInFlight == Len(loads) <= 1


\* C27: the in-progress marker of a keyword is set exactly while a retry of
\* that keyword is in flight; a step of the retry of one keyword changes
\* neither the marker, the retry nor the stored record of another keyword,
\* and the step that applies a fetch changes no marker, no retry and no
\* stored record
RetriesIndependent ==
  [][/\ \A i \in Ids :
          /\ keywordLoading'[i] <=> retry'[i].pc # "idle"
          /\ \A j \in Ids \ {i} :
               retry'[j] # retry[j] =>
                 /\ keywordLoading'[i] = keywordLoading[i]
                 /\ retry'[i] = retry[i]
                 /\ db'[i] = db[i]
     /\ Len(loads') < Len(loads) =>
          /\ keywordLoading' = keywordLoading
          /\ retry' = retry
          /\ db' = db]_vars

\* C27 witness: the retry of keyword 1 has completed and the store has queued
\* it, while the retry of keyword 2 is still in flight with its marker set
OneRetryDoneOtherInFlight ==
  /\ retry[1].pc = "idle" /\ ~keywordLoading[1]
  /\ db[1].status = "processing"
  /\ retry[2].pc \in {"reset", "reset_ok", "gen"} /\ keywordLoading[2]
  /\ alert.kind = "retry_initiated"

\* C28: the answer of a fetch is not applied to the list once the answer of a
\* fetch issued after it has been applied, and the loading indicator is set
\* whenever a fetch is in flight
LaterFetchWins ==
  [][/\ \A n \in 1..Len(loads) : loadKeywordsOk(n) => ~loads[n].overtaken
     /\ loads' # <<>> => loadingKeywords']_vars


\* C29: when no handler is in flight, no id occurs twice in the selection and
\* every selected id is the id of a keyword of the list
SelectionWithinList ==
  (InFlight = 0 /\ loads = <<>>) =>
    /\ \A m, n \in 1..Len(selectedKeywords) :
         selectedKeywords[m] = selectedKeywords[n] => m = n
    /\ Range(selectedKeywords) \subseteq Range(IdsOf(keywords))


\* C30: no keyword is named by two generation requests that are in flight
\* at the same time: the request of a retry of the keyword and the request of
\* a direct generation or of a retry of all failed keywords
OneGenerationPerKeyword ==
  \A i \in Ids :
    ~(/\ retry[i].pc = "gen"
      /\ genTask.pc = "gen"
      /\ i \in Range(genTask.ids))

====
